---- MODULE Spec2Model ----
(***************************************************************************)
(* pgmq-worker: the queue runner (startQueueRunner / processQueue), the    *)
(* worker-side dispatcher (createWorker / enhancedProcess / processMessage)*)
(* and the queue client (Pgmq.read / Pgmq.send), over a pgmq queue with    *)
(* visibility timeouts and a fixed-size worker pool.                       *)
(***************************************************************************)
EXTENDS Integers, Sequences, FiniteSets, Bags, TLC

(* ------------------------------ bounds --------------------------------- *)
MaxMsgs == 2          \* messages ever enqueued
MaxExpiries == 1      \* visibility timeouts that elapse on a leased message
MaxStragglers == 1    \* processQueue calls left running by a rejected cycle
POOL_SIZE == 1        \* options.poolSize
MaxHooks == 1         \* hooks configured at once in the runner and worker options
MaxStrLen == 1        \* length of a string in a payload
MaxRows == 2          \* rows in the table of the client under test
MaxOps == 2           \* calls made on the client under test
MaxQty == 2           \* options.qty of the client under test
MaxTimeout == 1       \* options.messageTimeout, in seconds

Queues == {"qa", "qb"}          \* options.queues
schemas == {"qa"}               \* the queues that were given a Zod schema
MsgIds == 1..MaxMsgs

VARIABLES
    opts,          \* the hooks configured in QueueRunnerOptions / WorkerOptions
    msgs,          \* the pgmq tables: per msg_id its queue, validity and state
    shuttingDown,  \* runner.ts: let shuttingDown
    loop,          \* position of startQueueRunner's body, from "start"
    invs,          \* the processQueue calls that are running (a bag)
    nodes,         \* the pool: per worker node the tasks assigned to it, head executing
    expiries,      \* how many visibility timeouts have elapsed (bounded)
    copts,         \* a Pgmq client's options: schema, onInvalid, qty
    rows,          \* that client's queue table: the rows in msg_id order
    hist           \* the calls made on that client, with their arguments and results

client == <<copts, rows, hist>>

\* the worker nodes of the pool that was created
Nodes == DOMAIN nodes

\* new FixedThreadPool(n, ...): n worker nodes, no task
Pool(n) == [k \in 1..n |-> <<>>]
vars == <<opts, msgs, shuttingDown, loop, invs, nodes, expiries, copts, rows, hist>>

(* --------------------------- configuration ----------------------------- *)
OptNames == {"onReady", "onBeforeProcess", "onBeforeExecute", "onError",
             "onInvalidMessage", "onShutdown",
             "wOnBeforeProcess", "wOnError", "wOnAfterProcess"}

\* the hooks of WorkerOptions
WorkerOptNames == {"wOnBeforeProcess", "wOnError", "wOnAfterProcess"}

\* options.connection is a postgres.Sql client (not a URL); options.worker is given
ConnNames == {"sqlClient", "worker"}

Hooks(f) == {o \in OptNames : f[o]}

\* a URL and the default worker, with at most MaxHooks hooks
Configs ==
    {f \in [OptNames \cup ConnNames -> BOOLEAN] :
        Cardinality(Hooks(f)) <= MaxHooks /\ ~f.sqlClient /\ ~f.worker}

\* those, the workers that are given several hooks at once, and every kind of
\* connection with and without a custom worker
WideConfigs ==
    Configs \cup
    {f \in [OptNames \cup ConnNames -> BOOLEAN] :
        \/ Hooks(f) \subseteq WorkerOptNames /\ ~f.sqlClient /\ ~f.worker
        \/ Hooks(f) \subseteq {"onReady"}}

NoMsg == [q |-> "qa", valid |-> TRUE, st |-> "none"]

\* an option that is not given (undefined), and the values of messageTimeout
Undefined == -1
Timeouts == {Undefined} \cup (0..MaxTimeout)

\* x ?? d and x || d on an optional number
Nullish(x, d) == IF x = Undefined THEN d ELSE x
OrElse(x, d) == IF x = Undefined \/ x = 0 THEN d ELSE x

\* runner.ts 10: const MESSAGE_TIMEOUT = options.messageTimeout ?? 5
MESSAGE_TIMEOUT(mt) == Nullish(mt, 5)

\* runner.ts 107-110, and by: the options.messageTimeout startQueueRunner was given
defaultOptions(mt) == [messageTimeout |-> MESSAGE_TIMEOUT(mt), qty |-> 1, by |-> mt]

\* by in the options of a client that user code constructed
ByUser == -2

\* the clients processQueue constructs (runner.ts 117-135): one with the queue's
\* schema and the onInvalid closure, one with neither
RunnerClients ==
    {[schema |-> b, onInvalid |-> b, qty |-> d.qty, messageTimeout |-> d.messageTimeout,
      by |-> d.by] : b \in BOOLEAN, d \in {defaultOptions(mt) : mt \in Timeouts}}

\* the clients user code constructs with new Pgmq(connection, queue, options)
UserClients ==
    {c \in [schema : BOOLEAN, onInvalid : BOOLEAN, qty : 1..MaxQty,
            messageTimeout : {Undefined}, by : {ByUser}] : c.onInvalid => c.schema}

\* startQueueRunner is called with options f
Called(f) ==
    /\ opts = f
    /\ msgs = [m \in MsgIds |-> NoMsg]
    /\ shuttingDown = FALSE
    /\ loop = "start"
    /\ invs = EmptyBag
    /\ nodes = Pool(POOL_SIZE)
    /\ expiries = 0
    /\ copts = [schema |-> FALSE, onInvalid |-> FALSE, qty |-> 1,
                messageTimeout |-> Undefined, by |-> ByUser]
    /\ rows = <<>>
    /\ hist = <<>>

Init == \E f \in Configs : Called(f)

(* ------------------------- the pgmq primitives -------------------------- *)
Active == {"avail", "leased"}

\* pgmq.archive(queue, msg_id): moves an active row to the archive table
qArchive(ms, m) ==
    IF ms[m].st \in Active THEN [ms EXCEPT ![m].st = "archived"] ELSE ms

\* pgmq.delete(queue, msg_id): removes an active row
qDelete(ms, m) ==
    IF ms[m].st \in Active THEN [ms EXCEPT ![m].st = "deleted"] ELSE ms

\* pgmq.set_vt(queue, msg_id, seconds): vt := now + seconds, the row is hidden again
qSetVt(ms, m) ==
    IF ms[m].st \in Active THEN [ms EXCEPT ![m].st = "leased"] ELSE ms

\* the rows pgmq.read(queue, vt, 1) can return: visible rows of the queue
Visible(ms, q) == {m \in MsgIds : ms[m].q = q /\ ms[m].st = "avail"}

\* pgmq.read returns the visible row with the lowest msg_id
Oldest(S) == CHOOSE m \in S : \A n \in S : m <= n

\* pgmq.read leases the row: vt := now + timeout
qLease(ms, m) == [ms EXCEPT ![m].st = "leased"]

(* ----------------------------- environment ----------------------------- *)
\* a producer enqueues a row (pgmq.send in SQL, README "Send a message"); rows of a
\* queue with a schema may or may not conform to it
SendMsg(m, q, v) ==
    /\ msgs[m].st = "none"
    /\ \A n \in MsgIds : n < m => msgs[n].st # "none"
    /\ v \/ q \in schemas
    /\ msgs' = [msgs EXCEPT ![m] = [q |-> q, valid |-> v, st |-> "avail"]]
    /\ UNCHANGED <<opts, shuttingDown, loop, invs, nodes, expiries, client>>

\* the visibility timeout of a leased row elapses (README "Message timeouts")
VtExpire(m) ==
    /\ msgs[m].st = "leased"
    /\ expiries < MaxExpiries
    /\ msgs' = [msgs EXCEPT ![m].st = "avail"]
    /\ expiries' = expiries + 1
    /\ UNCHANGED <<opts, shuttingDown, loop, invs, nodes, client>>

\* mutant: every signal flips the flag
handleShutdownToggle ==
    /\ loop \notin {"start", "poolStarting", "configError", "rejected", "returned",
                     "aborted"}
    /\ shuttingDown' = ~shuttingDown
    /\ UNCHANGED <<opts, msgs, loop, invs, nodes, expiries, client>>

\* SIGTERM or SIGINT is delivered, the listeners being registered (runner.ts 67-68)
handleShutdown ==
    /\ loop \notin {"start", "poolStarting", "configError", "rejected", "returned",
                     "aborted"}
    /\ shuttingDown' = (IF ~shuttingDown THEN TRUE ELSE shuttingDown)
    /\ UNCHANGED <<opts, msgs, loop, invs, nodes, expiries, client>>

(* ------------------------------ the pool -------------------------------- *)
\* pool.info.idleWorkerNodes: the worker nodes with no task executing or queued
idleWorkerNodes == Cardinality({k \in Nodes : nodes[k] = <<>>})

\* the tasks submitted to the pool whose task function has not finished
InFlight == {<<k, i>> \in Nodes \X (1..(MaxMsgs + MaxExpiries)) : i <= Len(nodes[k])}

\* result: enhancedProcess's let result, "undefined" until options.onError returns
NewTask(q, m) ==
    [q |-> q, m |-> m, pc |-> "queued", hops |-> {}, err |-> "none", dcalls |-> <<>>,
     result |-> "undefined"]

\* mutant: the task is handed to the pool twice
executeTwice(ns, k, q, m) ==
    IF loop \in {"destroy", "returned"} THEN ns
    ELSE [ns EXCEPT ![k] = Append(Append(@, NewTask(q, m)), NewTask(q, m))]

\* pool.execute(task): the pool assigns the task to a worker node, which runs it
\* when the tasks before it are done; a pool that is being destroyed takes no task
execute(ns, k, q, m) ==
    IF loop \in {"destroy", "returned"} THEN ns
    ELSE [ns EXCEPT ![k] = Append(@, NewTask(q, m))]

(* ------------------------- startQueueRunner ----------------------------- *)
NewInv(q, pc) ==
    [q |-> q, gen |-> "cur", pc |-> pc, m |-> 0, res |-> 0, via |-> {},
     failed |-> FALSE]

Cur(b) == {r \in BagToSet(b) : r.gen = "cur"}
Settled(r) == r.pc \in {"done", "rejected"}
Running(b) == {r \in BagToSet(b) : ~Settled(r)}

\* runner.ts 183-190: options.onShutdown if configured, then pool.destroy()
AfterLoop == IF opts.onShutdown THEN "onShutdown" ELSE "destroy"

\* mutant: the loop is left for pool.destroy() at once
LoopHeadNoHook == IF shuttingDown THEN "destroy" ELSE "waitReady"

\* while (!shuttingDown): where the body goes when the condition is evaluated
LoopHead == IF shuttingDown THEN AfterLoop ELSE "waitReady"

\* a hook may make a call of the running cycle reject only while the calls the
\* rejected cycle leaves behind stay within MaxStragglers
CanReject(r) ==
    \/ r.gen = "old"
    \/ BagCardinality(invs) - Cardinality({x \in Cur(invs) : Settled(x) \/ x = r})
          <= MaxStragglers

\* mutant: a call that leased a message counts it, returned or not
JoinCountLeased(b) ==
    LET cur == Cur(b)
        left == {r \in BagToSet(b) : r.gen = "old" /\ ~Settled(r)}
        old == [r \in left |-> b[r]]
        got == IF \E r \in cur : r.pc = "done" /\ (r.res > 0 \/ r.m # 0)
                 THEN "some" ELSE "zero"
    IN  IF cur = {}
          THEN [invs |-> old, loop |-> loop]
        ELSE IF \E r \in cur : r.pc = "rejected"
          THEN [invs |-> old (+) SetToBag({[r EXCEPT !.gen = "old"] :
                                             r \in {x \in cur : ~Settled(x)}}),
                loop |-> "sleep"]
        ELSE IF \A r \in cur : r.pc = "done"
          THEN [invs |-> old,
                loop |-> IF got = "some" THEN LoopHead ELSE "sleep"]
        ELSE [invs |-> old (+) SetToBag(cur), loop |-> loop]

\* Promise.all(queueNames.map(processQueue)).catch(() => [0]) and the test
\* messageCounts.some(count > 0): evaluated on the calls b as soon as they settle
Join(b) ==
    LET cur == Cur(b)
        left == {r \in BagToSet(b) : r.gen = "old" /\ ~Settled(r)}
        old == [r \in left |-> b[r]]
        got == IF \E r \in cur : r.pc = "done" /\ r.res > 0 THEN "some" ELSE "zero"
    IN  IF cur = {}
          THEN [invs |-> old, loop |-> loop]
        ELSE IF \E r \in cur : r.pc = "rejected"
          THEN [invs |-> old (+) SetToBag({[r EXCEPT !.gen = "old"] :
                                             r \in {x \in cur : ~Settled(x)}}),
                loop |-> "sleep"]
        ELSE IF \A r \in cur : r.pc = "done"
          THEN [invs |-> old,
                loop |-> IF got = "some" THEN LoopHead ELSE "sleep"]
        ELSE [invs |-> old (+) SetToBag(cur), loop |-> loop]

\* one call r of processQueue moves on to r2; the cycle is joined if that settles it
Step(r, r2) ==
    LET j == Join((invs (-) SetToBag({r})) (+) SetToBag({r2}))
    IN  /\ invs' = j.invs
        /\ loop' = j.loop

\* mutant: the pool is created whatever the connection and the worker are
ConfigureUnchecked ==
    /\ loop = "start"
    /\ loop' = "poolStarting"
    /\ UNCHANGED <<opts, msgs, shuttingDown, invs, nodes, expiries, client>>

\* runner.ts 8-43: the check of connection and worker, then the pool is created
Configure ==
    /\ loop = "start"
    /\ loop' = IF opts.sqlClient /\ ~opts.worker THEN "configError" ELSE "poolStarting"
    /\ UNCHANGED <<opts, msgs, shuttingDown, invs, nodes, expiries, client>>

\* the pool reports ready (47-57); the signal listeners are registered, then
\* options.onReady is called if configured (103-105)
PoolReady ==
    /\ loop = "poolStarting"
    /\ loop' = IF opts.onReady THEN "onReady" ELSE LoopHead
    /\ UNCHANGED <<opts, msgs, shuttingDown, invs, nodes, expiries, client>>

\* options.onReady returns: the loop is entered
OnReadyReturn ==
    /\ loop = "onReady"
    /\ loop' = LoopHead
    /\ UNCHANGED <<opts, msgs, shuttingDown, invs, nodes, expiries, client>>

\* options.onReady throws: startQueueRunner rejects
OnReadyThrow ==
    /\ loop = "onReady"
    /\ loop' = "rejected"
    /\ UNCHANGED <<opts, msgs, shuttingDown, invs, nodes, expiries, client>>

\* processQueue up to its first await (runner.ts 112-143)
processQueueEntry(q) ==
    IF shuttingDown THEN NewInv(q, "done")
    ELSE IF opts.onBeforeProcess THEN NewInv(q, "beforeProcess")
    ELSE NewInv(q, "read")

\* mutant: the cycle polls one queue only
FanoutOneQueue ==
    /\ loop = "waitReady"
    /\ idleWorkerNodes > 0
    /\ LET j == Join(invs (+) SetToBag({processQueueEntry("qa")}))
       IN  /\ invs' = j.invs
           /\ loop' = IF j.loop = "waitReady" THEN "join" ELSE j.loop
    /\ UNCHANGED <<opts, msgs, shuttingDown, nodes, expiries, client>>

\* waitForReady resolves and the cycle calls processQueue for every queue
Fanout ==
    /\ loop = "waitReady"
    /\ idleWorkerNodes > 0
    /\ LET j == Join(invs (+) SetToBag({processQueueEntry(q) : q \in Queues}))
       IN  /\ invs' = j.invs
           /\ loop' = IF j.loop = "waitReady" THEN "join" ELSE j.loop
    /\ UNCHANGED <<opts, msgs, shuttingDown, nodes, expiries, client>>

\* options.onBeforeProcess returns: pgmq.read() is issued
BeforeProcessReturn(r) ==
    /\ r.pc = "beforeProcess"
    /\ Step(r, [r EXCEPT !.pc = "read"])
    /\ UNCHANGED <<opts, msgs, shuttingDown, nodes, expiries, client>>

\* options.onBeforeProcess throws: processQueue rejects
BeforeProcessThrow(r) ==
    /\ r.pc = "beforeProcess"
    /\ CanReject(r)
    /\ Step(r, [r EXCEPT !.pc = "rejected"])
    /\ UNCHANGED <<opts, msgs, shuttingDown, nodes, expiries, client>>

\* mutant: the automatic archive also runs when the hook is configured
onInvalidBoth(r, m) ==
    [r EXCEPT !.pc = "invalidArchive", !.m = m,
              !.via = IF opts.onInvalidMessage THEN {"hook", "archive"} ELSE {"archive"}]

\* the onInvalid closure processQueue gives the client (runner.ts 121-133)
onInvalid(r, m) ==
    IF opts.onInvalidMessage
      THEN [r EXCEPT !.pc = "invalidHook", !.m = m, !.via = @ \cup {"hook"}]
      ELSE [r EXCEPT !.pc = "invalidArchive", !.m = m, !.via = @ \cup {"archive"}]

\* Pgmq.read's loop over the one row (Pgmq.ts 58-76): the row goes to the result
\* or to onInvalid
Validate(r, m) ==
    IF r.q \in schemas /\ ~msgs[m].valid
      THEN onInvalid(r, m)
      ELSE [r EXCEPT !.m = m, !.res = 1,
                     !.pc = IF opts.onBeforeExecute THEN "beforeExecute" ELSE "done"]

\* mutant: processQueue awaits the task it submitted
ReadRowsAwait(r, k) ==
    /\ r.pc = "read"
    /\ IF Visible(msgs, r.q) = {}
         THEN /\ Step(r, [r EXCEPT !.pc = "done"])
              /\ UNCHANGED <<msgs, nodes>>
         ELSE LET m == Oldest(Visible(msgs, r.q))
                  r2 == Validate(r, m)
              IN  /\ msgs' = qLease(msgs, m)
                  /\ Step(r, IF r2.pc = "done" THEN [r2 EXCEPT !.pc = "awaitTask"] ELSE r2)
                  /\ nodes' = IF r2.pc = "done" THEN execute(nodes, k, r.q, m)
                              ELSE nodes
    /\ UNCHANGED <<opts, shuttingDown, expiries, client>>

\* pgmq.read answers: no row, or the oldest visible row, now leased
ReadRows(r, k) ==
    /\ r.pc = "read"
    /\ IF Visible(msgs, r.q) = {}
         THEN /\ Step(r, [r EXCEPT !.pc = "done"])
              /\ UNCHANGED <<msgs, nodes>>
         ELSE LET m == Oldest(Visible(msgs, r.q))
                  r2 == Validate(r, m)
              IN  /\ msgs' = qLease(msgs, m)
                  /\ Step(r, r2)
                  /\ nodes' = IF r2.pc = "done" THEN execute(nodes, k, r.q, m)
                              ELSE nodes
    /\ UNCHANGED <<opts, shuttingDown, expiries, client>>

\* mutant: no catch, the error leaves processQueue
CaughtRethrow(r) == [r EXCEPT !.pc = "rejected", !.res = 0]

\* the catch of runner.ts 160-166
Caught(r) ==
    IF opts.onError THEN [r EXCEPT !.pc = "onError", !.res = 0]
    ELSE [r EXCEPT !.pc = "done", !.res = 0]

\* pgmq.read fails (connection or SQL error)
ReadFail(r) ==
    /\ r.pc = "read"
    /\ Step(r, [Caught(r) EXCEPT !.failed = TRUE])
    /\ UNCHANGED <<opts, msgs, shuttingDown, nodes, expiries, client>>

\* the automatic archive of an invalid row completes; read returns []
InvalidArchiveDone(r) ==
    /\ r.pc = "invalidArchive"
    /\ msgs' = qArchive(msgs, r.m)
    /\ Step(r, [r EXCEPT !.pc = "done"])
    /\ UNCHANGED <<opts, shuttingDown, nodes, expiries, client>>

\* options.onInvalidMessage returns, having archived, deleted or left the row
InvalidHookReturn(r, act) ==
    /\ r.pc = "invalidHook"
    /\ msgs' = CASE act = "archive" -> qArchive(msgs, r.m)
                 [] act = "delete" -> qDelete(msgs, r.m)
                 [] OTHER -> msgs
    /\ Step(r, [r EXCEPT !.pc = "done"])
    /\ UNCHANGED <<opts, shuttingDown, nodes, expiries, client>>

\* options.onInvalidMessage throws: read rejects, caught at runner.ts 160
InvalidHookThrow(r) ==
    /\ r.pc = "invalidHook"
    /\ Step(r, Caught(r))
    /\ UNCHANGED <<opts, msgs, shuttingDown, nodes, expiries, client>>

\* options.onBeforeExecute returns: pool.execute(task), return messages.length
BeforeExecuteReturn(r, k) ==
    /\ r.pc = "beforeExecute"
    /\ nodes' = execute(nodes, k, r.q, r.m)
    /\ Step(r, [r EXCEPT !.pc = "done"])
    /\ UNCHANGED <<opts, msgs, shuttingDown, expiries, client>>

\* mutant: the error of the hook is ignored and the task is submitted
BeforeExecuteThrowSubmit(r) ==
    /\ r.pc = "beforeExecute"
    /\ nodes' = execute(nodes, CHOOSE k \in Nodes : TRUE, r.q, r.m)
    /\ Step(r, [r EXCEPT !.pc = "done", !.via = {"skip"}])
    /\ UNCHANGED <<opts, msgs, shuttingDown, expiries, client>>

\* options.onBeforeExecute throws: return 1, the task is skipped
BeforeExecuteThrow(r) ==
    /\ r.pc = "beforeExecute"
    /\ Step(r, [r EXCEPT !.pc = "done", !.via = {"skip"}])
    /\ UNCHANGED <<opts, msgs, shuttingDown, nodes, expiries, client>>

\* options.onError returns: return 0
OnErrorReturn(r) ==
    /\ r.pc = "onError"
    /\ Step(r, [r EXCEPT !.pc = "done"])
    /\ UNCHANGED <<opts, msgs, shuttingDown, nodes, expiries, client>>

\* options.onError throws: processQueue rejects
OnErrorThrow(r) ==
    /\ r.pc = "onError"
    /\ CanReject(r)
    /\ Step(r, [r EXCEPT !.pc = "rejected"])
    /\ UNCHANGED <<opts, msgs, shuttingDown, nodes, expiries, client>>

\* the backoff timer of runner.ts 180 fires
SleepDone ==
    /\ loop = "sleep"
    /\ loop' = LoopHead
    /\ UNCHANGED <<opts, msgs, shuttingDown, invs, nodes, expiries, client>>

\* options.onShutdown returns: pool.destroy() is called
OnShutdownReturn ==
    /\ loop = "onShutdown"
    /\ loop' = "destroy"
    /\ UNCHANGED <<opts, msgs, shuttingDown, invs, nodes, expiries, client>>

\* options.onShutdown throws: startQueueRunner rejects, the pool is left as it is
OnShutdownThrow ==
    /\ loop = "onShutdown"
    /\ loop' = "rejected"
    /\ UNCHANGED <<opts, msgs, shuttingDown, invs, nodes, expiries, client>>

\* the drain pool.destroy() waits for: no task is left on any worker node
PoolDrained == \A k \in Nodes : nodes[k] = <<>>

\* mutant: pool.destroy() is not awaited
DestroyNoWait ==
    /\ loop = "destroy"
    /\ loop' = "returned"
    /\ UNCHANGED <<opts, msgs, shuttingDown, invs, nodes, expiries, client>>

\* await pool.destroy() returns and startQueueRunner with it
Destroy ==
    /\ loop = "destroy"
    /\ PoolDrained
    /\ loop' = "returned"
    /\ UNCHANGED <<opts, msgs, shuttingDown, invs, nodes, expiries, client>>

(* ---------------------- createWorker: enhancedProcess ------------------- *)
Task(k) == Head(nodes[k])
At(k, pc) == nodes[k] # <<>> /\ Task(k).pc = pc
SetTask(k, t) == nodes' = [nodes EXCEPT ![k] = <<t>> \o Tail(@)]

HandleOps == {"delete", "archive", "setTimeout"}

\* data.msg_id of row m: its number in its own queue's table, each queue counting
\* from 1
msg_id(ms, m) ==
    Cardinality({n \in MsgIds : n <= m /\ ms[n].st # "none" /\ ms[n].q = ms[m].q})

\* the rows of queue q with that msg_id: one or none
RowOf(ms, q, id) ==
    {m \in MsgIds : ms[m].st # "none" /\ ms[m].q = q /\ msg_id(ms, m) = id}

\* Pgmq.delete / archive / setTimeout (Pgmq.ts 44-46, 102-108): the SQL function on
\* this.queueName and the msg_id given
clientCall(ms, op, q, id) ==
    IF RowOf(ms, q, id) = {} THEN ms
    ELSE LET m == CHOOSE n \in RowOf(ms, q, id) : TRUE
         IN  CASE op = "delete" -> qDelete(ms, m)
               [] op = "archive" -> qArchive(ms, m)
               [] op = "setTimeout" -> qSetVt(ms, m)
               [] OTHER -> ms

\* mutant: the handle is bound to a client for the first queue
PgmqMessageFirstQueue(t) == [queue |-> "qa", msg_id |-> msg_id(msgs, t.m)]

\* worker.ts 83-84: new PgmqMessage(new Pgmq(sql, task.queueName, {}), task.message)
PgmqMessageOf(t) == [queue |-> t.q, msg_id |-> msg_id(msgs, t.m)]

\* PgmqMessage.delete / archive / setTimeout: the same call on the handle's queue
\* client with the handle's msg_id
handleCall(ms, op, h) == clientCall(ms, op, h.queue, h.msg_id)

\* mutant: the message is archived after the try/catch on every path
AfterTryArchive(t) ==
    [t EXCEPT !.pc = IF opts.wOnAfterProcess THEN "afterProcess" ELSE "finished",
              !.dcalls = Append(@, "archive")]

\* after the try/catch of enhancedProcess: onAfterProcess if configured, then return
AfterTry(t) ==
    [t EXCEPT !.pc = IF opts.wOnAfterProcess THEN "afterProcess" ELSE "finished"]

\* mutant: the catch reports the error and leaves the message alone
CatchNoArchive(t, why) == [AfterTry(t) EXCEPT !.err = why]

\* mutant: the default archive is issued with or without an error hook
CatchArchiveAlways(t, why) ==
    [t EXCEPT !.pc = IF opts.wOnError THEN "onError" ELSE "archive", !.err = why,
              !.dcalls = Append(@, "archive")]

\* the catch of enhancedProcess for a HandlerError (worker.ts 93-107)
CatchHandlerError(t, why) ==
    IF opts.wOnError
      THEN [t EXCEPT !.pc = "onError", !.err = why]
      ELSE [t EXCEPT !.pc = "archive", !.err = why, !.dcalls = Append(@, "archive")]

\* the worker node takes its next task: enhancedProcess(task) starts
TaskStart(k) ==
    /\ At(k, "queued")
    /\ SetTask(k, [Task(k) EXCEPT
                     !.pc = IF opts.wOnBeforeProcess THEN "beforeProcess" ELSE "import"])
    /\ UNCHANGED <<opts, msgs, shuttingDown, loop, invs, expiries, client>>

\* options.onBeforeProcess of the worker returns the import path
WBeforeProcessReturn(k) ==
    /\ At(k, "beforeProcess")
    /\ SetTask(k, [Task(k) EXCEPT !.pc = "import"])
    /\ UNCHANGED <<opts, msgs, shuttingDown, loop, invs, expiries, client>>

\* options.onBeforeProcess of the worker throws: outside the try, the task fails
WBeforeProcessThrow(k) ==
    /\ At(k, "beforeProcess")
    /\ SetTask(k, [Task(k) EXCEPT !.pc = "failed"])
    /\ UNCHANGED <<opts, msgs, shuttingDown, loop, invs, expiries, client>>

\* processMessage: the module loads and its default export is a function
ImportOk(k) ==
    /\ At(k, "import")
    /\ SetTask(k, [Task(k) EXCEPT !.pc = "handler"])
    /\ UNCHANGED <<opts, msgs, shuttingDown, loop, invs, expiries, client>>

\* mutant: the handler is called although it could not be resolved
ImportFailCallsHandler(k) ==
    /\ At(k, "import")
    /\ SetTask(k, [Task(k) EXCEPT !.pc = "handler", !.err = "unresolved"])
    /\ UNCHANGED <<opts, msgs, shuttingDown, loop, invs, expiries, client>>

\* processMessage: the import fails or the default export is no function
ImportFail(k) ==
    /\ At(k, "import")
    /\ SetTask(k, CatchHandlerError(Task(k), "unresolved"))
    /\ UNCHANGED <<opts, msgs, shuttingDown, loop, invs, expiries, client>>

\* the handler calls a lease-ending operation of its message handle
HandlerCall(k, op) ==
    /\ At(k, "handler")
    /\ op \notin Task(k).hops
    /\ msgs' = handleCall(msgs, op, PgmqMessageOf(Task(k)))
    /\ SetTask(k, [Task(k) EXCEPT !.hops = @ \cup {op}])
    /\ UNCHANGED <<opts, shuttingDown, loop, invs, expiries, client>>

\* mutant: the dispatcher deletes the message when the handler has returned
HandlerReturnDelete(k) ==
    /\ At(k, "handler")
    /\ msgs' = qDelete(msgs, Task(k).m)
    /\ SetTask(k, [AfterTry(Task(k)) EXCEPT !.dcalls = Append(@, "delete")])
    /\ UNCHANGED <<opts, shuttingDown, loop, invs, expiries, client>>

\* the handler returns
HandlerReturn(k) ==
    /\ At(k, "handler")
    /\ SetTask(k, AfterTry(Task(k)))
    /\ UNCHANGED <<opts, msgs, shuttingDown, loop, invs, expiries, client>>

\* the handler throws: processMessage wraps it in a HandlerError
HandlerThrow(k) ==
    /\ At(k, "handler")
    /\ SetTask(k, CatchHandlerError(Task(k), "threw"))
    /\ UNCHANGED <<opts, msgs, shuttingDown, loop, invs, expiries, client>>

\* mutant: the dispatcher deletes the message of a failed handler
DispatcherDelete(k) ==
    /\ At(k, "archive")
    /\ msgs' = handleCall(msgs, "delete", PgmqMessageOf(Task(k)))
    /\ SetTask(k, AfterTry(Task(k)))
    /\ UNCHANGED <<opts, shuttingDown, loop, invs, expiries, client>>

\* await pgmqMessage.archive() of worker.ts 106 completes
DispatcherArchive(k) ==
    /\ At(k, "archive")
    /\ msgs' = handleCall(msgs, "archive", PgmqMessageOf(Task(k)))
    /\ SetTask(k, AfterTry(Task(k)))
    /\ UNCHANGED <<opts, shuttingDown, loop, invs, expiries, client>>

\* options.onError of the worker returns, having archived, deleted or left the row
WOnErrorReturn(k, act) ==
    /\ At(k, "onError")
    /\ msgs' = handleCall(msgs, act, PgmqMessageOf(Task(k)))
    /\ SetTask(k, [AfterTry(Task(k)) EXCEPT !.result = "onError's"])
    /\ UNCHANGED <<opts, shuttingDown, loop, invs, expiries, client>>

\* options.onError of the worker throws: the task fails
WOnErrorThrow(k) ==
    /\ At(k, "onError")
    /\ SetTask(k, [Task(k) EXCEPT !.pc = "failed"])
    /\ UNCHANGED <<opts, msgs, shuttingDown, loop, invs, expiries, client>>

\* options.onAfterProcess returns: enhancedProcess returns result
AfterProcessReturn(k) ==
    /\ At(k, "afterProcess")
    /\ SetTask(k, [Task(k) EXCEPT !.pc = "finished"])
    /\ UNCHANGED <<opts, msgs, shuttingDown, loop, invs, expiries, client>>

\* options.onAfterProcess throws: the task fails
AfterProcessThrow(k) ==
    /\ At(k, "afterProcess")
    /\ SetTask(k, [Task(k) EXCEPT !.pc = "failed"])
    /\ UNCHANGED <<opts, msgs, shuttingDown, loop, invs, expiries, client>>

\* the pool receives the task's response: the node is free for its next task
TaskEnd(k) ==
    /\ nodes[k] # <<>>
    /\ Task(k).pc \in {"finished", "failed"}
    /\ nodes' = [nodes EXCEPT ![k] = Tail(@)]
    /\ UNCHANGED <<opts, msgs, shuttingDown, loop, invs, expiries, client>>

\* the pool receives the response of a task whose task function raised and rejects
\* the promise pool.execute(task) returned; processQueue dropped that promise
\* (runner.ts 156), so the rejection is unhandled and the runtime ends the process,
\* with the loop, the processQueue calls and the worker threads in it
UnhandledRejection(k) ==
    /\ nodes[k] # <<>>
    /\ Task(k).pc = "failed"
    /\ loop \notin {"returned", "aborted"}
    /\ loop' = "aborted"
    /\ invs' = EmptyBag
    /\ nodes' = [j \in Nodes |-> <<>>]
    /\ UNCHANGED <<opts, msgs, shuttingDown, expiries, client>>

(* ------------------------------- Next ---------------------------------- *)
\* every step but a handler's own delete / archive / setTimeout call
NextQuiet ==
    \/ \E m \in MsgIds, q \in Queues, v \in BOOLEAN : SendMsg(m, q, v)
    \/ \E m \in MsgIds : VtExpire(m)
    \/ handleShutdown
    \/ Configure
    \/ PoolReady
    \/ OnReadyReturn
    \/ OnReadyThrow
    \/ Fanout
    \/ \E r \in BagToSet(invs) : BeforeProcessReturn(r)
    \/ \E r \in BagToSet(invs) : BeforeProcessThrow(r)
    \/ \E r \in BagToSet(invs), k \in Nodes : ReadRows(r, k)
    \/ \E r \in BagToSet(invs) : ReadFail(r)
    \/ \E r \in BagToSet(invs) : InvalidArchiveDone(r)
    \/ \E r \in BagToSet(invs), act \in {"none", "archive", "delete"} :
           InvalidHookReturn(r, act)
    \/ \E r \in BagToSet(invs) : InvalidHookThrow(r)
    \/ \E r \in BagToSet(invs), k \in Nodes : BeforeExecuteReturn(r, k)
    \/ \E r \in BagToSet(invs) : BeforeExecuteThrow(r)
    \/ \E r \in BagToSet(invs) : OnErrorReturn(r)
    \/ \E r \in BagToSet(invs) : OnErrorThrow(r)
    \/ SleepDone
    \/ OnShutdownReturn
    \/ OnShutdownThrow
    \/ Destroy
    \/ \E k \in Nodes : TaskStart(k)
    \/ \E k \in Nodes : WBeforeProcessReturn(k)
    \/ \E k \in Nodes : WBeforeProcessThrow(k)
    \/ \E k \in Nodes : ImportOk(k)
    \/ \E k \in Nodes : ImportFail(k)
    \/ \E k \in Nodes : HandlerReturn(k)
    \/ \E k \in Nodes : HandlerThrow(k)
    \/ \E k \in Nodes : DispatcherArchive(k)
    \/ \E k \in Nodes, act \in {"none", "archive", "delete"} : WOnErrorReturn(k, act)
    \/ \E k \in Nodes : WOnErrorThrow(k)
    \/ \E k \in Nodes : AfterProcessReturn(k)
    \/ \E k \in Nodes : AfterProcessThrow(k)
    \/ \E k \in Nodes : TaskEnd(k)

Next ==
    \/ NextQuiet
    \/ \E k \in Nodes, op \in HandleOps : HandlerCall(k, op)

Spec == Init /\ [][Next]_vars

\* the runner in a process of its own: an unhandled rejection ends it
NextAbort ==
    \/ Next
    \/ \E k \in Nodes : UnhandledRejection(k)

SpecAbort == Init /\ [][NextAbort]_vars

\* as Init, with the wider set of options
InitHooks == \E f \in WideConfigs : Called(f)

SpecHooks == InitHooks /\ [][Next]_vars

\* startQueueRunner is called with a URL, the default worker and no hook, and with
\* a pool of one more worker node as well
InitPlain ==
    \/ Called([o \in OptNames \cup ConnNames |-> FALSE])
    \/ /\ opts = [o \in OptNames \cup ConnNames |-> FALSE]
       /\ msgs = [m \in MsgIds |-> NoMsg]
       /\ shuttingDown = FALSE
       /\ loop = "start"
       /\ invs = EmptyBag
       /\ nodes = Pool(POOL_SIZE + 1)
       /\ expiries = 0
       /\ copts = [schema |-> FALSE, onInvalid |-> FALSE, qty |-> 1,
                   messageTimeout |-> Undefined, by |-> ByUser]
       /\ rows = <<>>
       /\ hist = <<>>

\* the steps that need no hook
NextPlain ==
    \/ \E m \in MsgIds, q \in Queues, v \in BOOLEAN : SendMsg(m, q, v)
    \/ \E m \in MsgIds : VtExpire(m)
    \/ handleShutdown
    \/ Configure
    \/ PoolReady
    \/ Fanout
    \/ \E r \in BagToSet(invs), k \in Nodes : ReadRows(r, k)
    \/ \E r \in BagToSet(invs) : ReadFail(r)
    \/ \E r \in BagToSet(invs) : InvalidArchiveDone(r)
    \/ SleepDone
    \/ Destroy
    \/ \E k \in Nodes : TaskStart(k)
    \/ \E k \in Nodes : ImportOk(k)
    \/ \E k \in Nodes : ImportFail(k)
    \/ \E k \in Nodes, op \in HandleOps : HandlerCall(k, op)
    \/ \E k \in Nodes : HandlerReturn(k)
    \/ \E k \in Nodes : HandlerThrow(k)
    \/ \E k \in Nodes : DispatcherArchive(k)
    \/ \E k \in Nodes : TaskEnd(k)

SpecPlain == InitPlain /\ [][NextPlain]_vars

(* ------------------------- Pgmq: the queue client ----------------------- *)
\* payloads for testSchema = z.object({name: z.string(), age: z.number()}): the
\* characters of name, the JSON type of age, and whether a key outside the schema
\* is present
Chars == {"a", "'"}
Strs == UNION {[1..n -> Chars] : n \in 0..MaxStrLen}
Payloads == [name : Strs, age : {"number", "string"}, extra : BOOLEAN]

\* testSchema.safeParse(p): success, and in data the keys of the schema only
safeParse(p) == [success |-> p.age = "number", data |-> [p EXCEPT !.extra = FALSE]]

\* how the server reads the text between the quotes of '...': '' is one quote, a
\* single quote ends the literal and leaves text after it, a syntax error
RECURSIVE sqlLiteral(_)
sqlLiteral(s) ==
    IF s = <<>> THEN [ok |-> TRUE, val |-> <<>>]
    ELSE IF Head(s) # "'"
      THEN LET r == sqlLiteral(Tail(s))
           IN  [ok |-> r.ok, val |-> <<Head(s)>> \o r.val]
    ELSE IF Len(s) >= 2 /\ s[2] = "'"
      THEN LET r == sqlLiteral(Tail(Tail(s)))
           IN  [ok |-> r.ok, val |-> <<"'">> \o r.val]
    ELSE [ok |-> FALSE, val |-> <<>>]

\* SELECT pgmq.send(queue, '<JSON.stringify(data)>', delay) with the text spliced in
\* by sql.unsafe: JSON.stringify leaves ' as it is, so the server sees the name
\* through sqlLiteral
sqlSend(data) ==
    LET lit == sqlLiteral(data.name)
    IN  [ok |-> lit.ok, row |-> [data EXCEPT !.name = lit.val]]

NewRow(p) == [p |-> p, st |-> "avail"]

InitClient ==
    /\ opts = [o \in OptNames \cup ConnNames |-> FALSE]
    /\ msgs = [m \in MsgIds |-> NoMsg]
    /\ shuttingDown = FALSE
    /\ loop = "start"
    /\ invs = EmptyBag
    /\ nodes = Pool(POOL_SIZE)
    /\ expiries = 0
    /\ copts \in UserClients \cup RunnerClients
    /\ rows = <<>>
    /\ hist = <<>>

runner == <<opts, msgs, shuttingDown, loop, invs, nodes, expiries>>

\* another producer inserts a row with SQL (README "Send a message")
InsertRow(p) ==
    /\ Len(rows) < MaxRows
    /\ rows' = Append(rows, NewRow(p))
    /\ UNCHANGED <<runner, copts, hist>>

\* mutant: the row is sent whatever safeParse answers
sendUnchecked(p) ==
    /\ Len(hist) < MaxOps
    /\ Len(rows) < MaxRows
    /\ LET q == sqlSend(p)
           status == IF ~q.ok THEN "SqlError" ELSE "ok"
       IN  /\ rows' = IF status = "ok" THEN Append(rows, NewRow(q.row)) ELSE rows
           /\ hist' = Append(hist, [op |-> "send", p |-> p, status |-> status,
                                    out |-> <<>>, before |-> rows, after |-> rows'])
    /\ UNCHANGED <<runner, copts>>

\* Pgmq.send(message) (Pgmq.ts 79-100)
send(p) ==
    /\ Len(hist) < MaxOps
    /\ Len(rows) < MaxRows
    /\ LET v == safeParse(p)
           q == sqlSend(IF copts.schema THEN v.data ELSE p)
           status == IF copts.schema /\ ~v.success THEN "SchemaError"
                     ELSE IF ~q.ok THEN "SqlError"
                     ELSE "ok"
       IN  /\ rows' = IF status = "ok" THEN Append(rows, NewRow(q.row)) ELSE rows
           /\ hist' = Append(hist, [op |-> "send", p |-> p, status |-> status,
                                    out |-> <<>>, before |-> rows, after |-> rows'])
    /\ UNCHANGED <<runner, copts>>

\* the arguments of the query (Pgmq.ts 53-55): messageTimeout || 30 and qty || 1
readArgs == [vt |-> OrElse(copts.messageTimeout, 30), qty |-> OrElse(copts.qty, 1)]

\* SELECT * FROM pgmq.read(queue, timeout, qty): the first qty visible rows
readRows ==
    LET vis == SelectSeq([i \in 1..Len(rows) |-> i], LAMBDA i : rows[i].st = "avail")
    IN  SubSeq(vis, 1, IF Len(vis) < readArgs.qty THEN Len(vis) ELSE readArgs.qty)

\* mutant: without an onInvalid callback a row that fails the schema is skipped
RECURSIVE readLoopSkip(_, _)
readLoopSkip(ids, hookThrows) ==
    IF ids = <<>> THEN [status |-> "ok", out |-> <<>>]
    ELSE LET raw == rows[Head(ids)].p
             v == safeParse(raw)
             rest == readLoopSkip(Tail(ids), hookThrows)
         IN  IF ~copts.schema THEN [rest EXCEPT !.out = <<raw>> \o @]
             ELSE IF v.success THEN [rest EXCEPT !.out = <<v.data>> \o @]
             ELSE rest

\* the loop of Pgmq.read over the rows it leased (Pgmq.ts 56-76); hookThrows: the
\* onInvalid callback throws
RECURSIVE readLoop(_, _)
readLoop(ids, hookThrows) ==
    IF ids = <<>> THEN [status |-> "ok", out |-> <<>>]
    ELSE LET raw == rows[Head(ids)].p
             v == safeParse(raw)
             rest == readLoop(Tail(ids), hookThrows)
             push(x) == [status |-> rest.status,
                         out |-> IF rest.status = "ok" THEN <<x>> \o rest.out ELSE <<>>]
         IN  IF ~copts.schema THEN push(raw)
             ELSE IF v.success THEN push(v.data)
             ELSE IF copts.onInvalid
               THEN IF hookThrows THEN [status |-> "HookError", out |-> <<>>] ELSE rest
             ELSE [status |-> "SchemaError", out |-> <<>>]

\* mutant: a read that raises gives the rows it leased back
readRollback(hookThrows) ==
    /\ Len(hist) < MaxOps
    /\ LET ids == readRows
           r == readLoop(ids, hookThrows)
       IN  /\ rows' = [i \in 1..Len(rows) |->
                         IF r.status = "ok" /\ \E j \in 1..Len(ids) : ids[j] = i
                           THEN [rows[i] EXCEPT !.st = "leased"] ELSE rows[i]]
           /\ hist' = Append(hist, [op |-> "read", p |-> NewRow(<<>>).p, status |-> r.status,
                                    out |-> r.out, before |-> rows, after |-> rows',
                                    args |-> readArgs])
    /\ UNCHANGED <<runner, copts>>

\* Pgmq.read() (Pgmq.ts 48-77)
read(hookThrows) ==
    /\ Len(hist) < MaxOps
    /\ LET ids == readRows
           r == readLoop(ids, hookThrows)
       IN  /\ rows' = [i \in 1..Len(rows) |->
                         IF \E j \in 1..Len(ids) : ids[j] = i
                           THEN [rows[i] EXCEPT !.st = "leased"] ELSE rows[i]]
           /\ hist' = Append(hist, [op |-> "read", p |-> NewRow(<<>>).p, status |-> r.status,
                                    out |-> r.out, before |-> rows, after |-> rows',
                                    args |-> readArgs])
    /\ UNCHANGED <<runner, copts>>

NextClient ==
    \/ \E p \in Payloads : InsertRow(p)
    \/ \E p \in Payloads : send(p)
    \/ \E h \in BOOLEAN : read(h)

SpecClient == InitClient /\ [][NextClient]_vars

(* ------------------------------- claims -------------------------------- *)
Tasks == {nodes[s[1]][s[2]] : s \in InFlight}
Unfinished == {s \in InFlight : nodes[s[1]][s[2]].pc \notin {"finished", "failed"}}

\* C1: the messages leased and submitted to the pool whose task has not finished
\* never outnumber the pool's worker nodes
C1_Backpressure == Cardinality(Unfinished) <= POOL_SIZE

Reading(b) ==
    LET S == {r \in BagToSet(b) : r.pc = "read"} IN BagCardinality([r \in S |-> b[r]])

\* C2: once shuttingDown is set no step issues a further queue read
C2_NoReadAfterShutdown == [][shuttingDown => Reading(invs)' <= Reading(invs)]_vars

C5_DeleteNoArchive ==
    \A t \in Tasks : "delete" \in t.hops => \A i \in 1..Len(t.dcalls) : t.dcalls[i] # "archive"

\* C5 amended: a task whose handler made a delete call and has not thrown gets no
\* archive call from the dispatcher
C5_DeleteAndReturnNoArchive ==
    \A t \in Tasks : ("delete" \in t.hops /\ t.err = "none") => t.dcalls = <<>>

C5_Witness ==
    \E t \in Tasks : "delete" \in t.hops /\ t.err = "none" /\ t.pc = "finished"

\* a message was returned by a read of the running cycle: to a call that holds it,
\* or in this step
Got == \/ \E r \in Cur(invs) : r.res > 0
       \/ \E m \in MsgIds : /\ msgs[m].st = "avail" /\ msgs'[m].st = "leased"
                            /\ (msgs[m].q \in schemas => msgs[m].valid)

\* C6: the step that ends a cycle goes to the backoff sleep if and only if no queue
\* returned a message in that cycle
C6_IdleBackoff ==
    [][(loop = "join" /\ loop' # "join") => ((loop' = "sleep") <=> ~Got)]_vars

Invalid(r) == r.m # 0 /\ r.q \in schemas /\ ~msgs[r.m].valid

\* C7: no task in the pool carries a payload that fails its queue's schema, and a
\* processQueue call that leased such a payload took exactly one disposal path, the
\* hook if options.onInvalidMessage is configured and the automatic archive if not
C7_InvalidDisposedOnce ==
    /\ \A t \in Tasks : t.q \in schemas => msgs[t.m].valid
    /\ \A r \in BagToSet(invs) : Invalid(r) =>
          /\ r.res = 0
          /\ r.via = IF opts.onInvalidMessage THEN {"hook"} ELSE {"archive"}
          /\ (r.via = {"archive"} /\ r.pc = "done") => msgs[r.m].st = "archived"

C7_Witness ==
    \E r \in BagToSet(invs) : Invalid(r) /\ r.pc = "done" /\ msgs[r.m].st = "archived"

Sends == {i \in 1..Len(hist) : hist[i].op = "send"}
Reads == {i \in 1..Len(hist) : hist[i].op = "read"}
Elems(sq) == {sq[i] : i \in 1..Len(sq)}

\* C8: with a schema, send of a payload that fails it ends in a SchemaError, leaves
\* the queue table as it was, and no later read returns that payload
C8_InvalidSendRejected ==
    \A i \in Sends : (copts.schema /\ ~safeParse(hist[i].p).success) =>
        /\ hist[i].status = "SchemaError"
        /\ hist[i].after = hist[i].before
        /\ \A j \in Reads : j > i => hist[i].p \notin Elems(hist[j].out)

C8_Witness ==
    \E i \in Sends, j \in Reads :
        /\ copts.schema /\ ~safeParse(hist[i].p).success
        /\ hist[i].status = "SchemaError" /\ j > i

\* C9: with a schema, a send of a valid payload P to an empty queue followed by a
\* read succeeds and the read returns exactly one message, with payload P
C9_RoundTrip ==
    \A i \in Sends, j \in Reads :
        ( /\ copts.schema /\ safeParse(hist[i].p).success
          /\ hist[i].before = <<>>
          /\ j = i + 1 /\ hist[j].before = hist[i].after )
        => /\ hist[i].status = "ok"
           /\ hist[j].status = "ok"
           /\ hist[j].out = <<hist[i].p>>

\* C10: a failing read changes no message and no task, leaves every other running
\* processQueue call as it is, goes to options.onError if configured and otherwise
\* returns 0, and counts as 0 when the cycle is joined
C10_ReadFailureContained ==
    [][\A r \in BagToSet(invs) : ReadFail(r) =>
         /\ msgs' = msgs /\ nodes' = nodes
         /\ \A x \in Running(invs) \ {r} : x \in BagToSet(invs')
         /\ IF opts.onError
              THEN /\ [r EXCEPT !.pc = "onError", !.failed = TRUE] \in BagToSet(invs')
                   /\ loop' = loop
            ELSE IF r.gen = "old" THEN loop' = loop
            ELSE IF \A x \in Cur(invs) \ {r} : x.pc = "done"
              THEN loop' = IF \E x \in Cur(invs) \ {r} : x.res > 0
                             THEN LoopHead ELSE "sleep"
            ELSE /\ [r EXCEPT !.pc = "done", !.failed = TRUE] \in BagToSet(invs')
                 /\ loop' = loop]_vars

C10_Witness ==
    \E r \in Cur(invs), x \in Cur(invs) :
        r.failed /\ x.q # r.q /\ x.pc = "done" /\ x.res = 1

\* the processQueue calls a rejected cycle left running
Stragglers == {r \in BagToSet(invs) : r.gen = "old" /\ ~Settled(r)}

\* C11: no call of the running cycle has a queue read issued while a processQueue
\* call of an earlier cycle has not completed
C11_CyclesSequential ==
    Stragglers # {} => \A r \in Cur(invs) : r.pc # "read"

\* the runner keeps polling and the workers keep working: the loop, its timer and
\* the pool take their steps, a pending hook or archive call ends, a handler ends,
\* and a queue's read answers and a runner hook returns once in a while
Fairness ==
    /\ WF_vars(\/ Configure \/ PoolReady \/ OnReadyReturn \/ OnReadyThrow
               \/ Fanout \/ SleepDone \/ OnShutdownReturn \/ OnShutdownThrow
               \/ Destroy)
    /\ WF_vars(\E r \in BagToSet(invs) :
                  \/ InvalidArchiveDone(r)
                  \/ InvalidHookReturn(r, "none") \/ InvalidHookThrow(r)
                  \/ OnErrorReturn(r) \/ OnErrorThrow(r))
    /\ \A q \in Queues :
          /\ SF_vars(\E r \in BagToSet(invs) : r.q = q /\ BeforeProcessReturn(r))
          /\ SF_vars(\E r \in BagToSet(invs), k \in Nodes : r.q = q /\ ReadRows(r, k))
          /\ SF_vars(\E r \in BagToSet(invs), k \in Nodes :
                        r.q = q /\ BeforeExecuteReturn(r, k))
    /\ \A k \in 1..POOL_SIZE :
          WF_vars(\/ TaskStart(k)
                  \/ WBeforeProcessReturn(k) \/ WBeforeProcessThrow(k)
                  \/ ImportOk(k) \/ ImportFail(k)
                  \/ HandlerReturn(k) \/ HandlerThrow(k)
                  \/ DispatcherArchive(k)
                  \/ WOnErrorReturn(k, "none") \/ WOnErrorThrow(k)
                  \/ AfterProcessReturn(k) \/ AfterProcessThrow(k)
                  \/ TaskEnd(k))

\* as Init, and with options.onReady and options.onShutdown given together
InitLive ==
    \/ Init
    \/ Called([o \in OptNames \cup ConnNames |-> o \in {"onReady", "onShutdown"}])

\* the runner with handlers that make no delete, archive or setTimeout call of
\* their own, under Fairness
SpecLive == InitLive /\ [][NextQuiet]_vars /\ Fairness

\* message m can be leased: it is visible, conforms to its queue's schema, and no
\* processQueue call and no task in the pool holds it from an earlier lease
Redeliverable(m) ==
    /\ msgs[m].st = "avail"
    /\ msgs[m].q \in schemas => msgs[m].valid
    /\ \A r \in BagToSet(invs) : r.m # m
    /\ \A t \in Tasks : t.m # m

Held(m) ==
    LET S == {r \in BagToSet(invs) : r.m = m /\ r.pc = "beforeExecute"}
    IN  BagCardinality([r \in S |-> invs[r]])
          + Cardinality({s \in InFlight : nodes[s[1]][s[2]].m = m})

\* C13: a message has at most one handle per lease deadline that has elapsed plus
\* one, while it is leased no step hands out a further handle of it, and no step
\* hands out more than one
C13_OneLeasePerDeadline ==
    /\ [](\A m \in MsgIds : Held(m) <= 1 + expiries)
    /\ [][\A m \in MsgIds : msgs[m].st = "leased" => Held(m)' <= Held(m)]_vars
    /\ [][\A m \in MsgIds : Held(m)' <= Held(m) + 1]_vars

C13_Witness ==
    \E m \in MsgIds : Held(m) = 2 /\ expiries = 1 /\ msgs[m].st = "leased"

\* C14: the step in which options.onBeforeExecute throws submits nothing and changes
\* no message, the call counts its message and ends, and a leased message that
\* conforms to its queue's schema leaves the leased state only by its deadline
\* elapsing or by a call made from a task that holds it, never by the runner
C14_SkipLeavesLeased ==
    /\ [][\A r \in BagToSet(invs) : BeforeExecuteThrow(r) =>
            /\ nodes' = nodes /\ msgs' = msgs
            /\ r.res = 1
            /\ Running(invs') \subseteq Running(invs)
            /\ \A x \in Running(invs) :
                   CopiesIn(x, invs') = CopiesIn(x, invs) - (IF x = r THEN 1 ELSE 0)]_vars
    /\ [][\A m \in MsgIds :
            ( /\ msgs[m].st = "leased" /\ msgs'[m].st # "leased"
              /\ msgs[m].q \in schemas => msgs[m].valid )
            => \/ msgs'[m].st = "avail" /\ expiries' = expiries + 1
               \/ \E k \in Nodes : nodes[k] # <<>> /\ Task(k).m = m]_vars

C14_Witness ==
    \E r \in BagToSet(invs) :
        /\ "skip" \in r.via /\ r.pc = "done"
        /\ msgs[r.m].st = "leased"
        /\ \A t \in Tasks : t.m # r.m

\* the task function of node k ends in this step, by returning or by raising
Ends(k) ==
    /\ nodes[k] # <<>> /\ nodes'[k] # <<>>
    /\ Task(k).pc \notin {"finished", "failed"}
    /\ Task(k)'.pc \in {"finished", "failed"}

\* C15: with options.onAfterProcess configured, a task function that has got to
\* processMessage ends only out of the after-process hook, and the hook is entered
\* only from the handler's return, the default archive or the error hook, so once
\* per task
C15_AfterHookAlways ==
    [][\A k \in Nodes : opts.wOnAfterProcess =>
          /\ (Ends(k) /\ Task(k).pc # "beforeProcess") => Task(k).pc = "afterProcess"
          /\ (nodes[k] # <<>> /\ nodes'[k] # <<>> /\ Task(k)'.pc = "afterProcess")
                => Task(k).pc \in {"handler", "archive", "onError", "afterProcess"}]_vars

\* C16: the task function of a task whose handler threw or could not be resolved
\* never raises
C16_HandlerErrorNeverFails ==
    \A t \in Tasks : t.err # "none" => t.pc # "failed"

\* node k's dispatcher takes a step on its current task
WorkerMoves(k) ==
    /\ nodes[k] # <<>>
    /\ \/ nodes'[k] = Tail(nodes[k])
       \/ nodes'[k] # <<>> /\ Task(k)' # Task(k)

\* C17: for a task whose handler has not thrown and has made no delete, archive or
\* setTimeout call, the dispatcher has issued no call for the message, and no step of
\* the dispatcher on that task changes any message
C17_NoResolveOnSuccess ==
    /\ [](\A t \in Tasks : (t.err = "none" /\ t.hops = {}) => t.dcalls = <<>>)
    /\ [][\A k \in Nodes :
            ( /\ WorkerMoves(k) /\ Task(k).err = "none" /\ Task(k).hops = {}
              /\ nodes'[k] # <<>> => (Task(k)'.err = "none" /\ Task(k)'.hops = {}) )
            => msgs' = msgs]_vars

C17_Witness ==
    \E t \in Tasks : /\ t.err = "none" /\ t.hops = {} /\ t.pc = "finished"
                     /\ msgs[t.m].st = "leased"

\* C18: with options.onError configured in the worker, a task whose handler threw
\* gets no call from the dispatcher, the hook is entered in the step in which the
\* error is caught and in no other, and when the hook has returned the task's result
\* is what it returned
C18_ErrorHookOnce ==
    /\ [](\A t \in Tasks : (opts.wOnError /\ t.err = "threw") =>
             /\ t.dcalls = <<>>
             /\ t.pc \in {"onError", "afterProcess", "finished", "failed"}
             /\ t.pc \in {"afterProcess", "finished"} => t.result = "onError's"
             /\ t.pc = "onError" => t.result = "undefined")
    /\ [][\A k \in Nodes :
            (opts.wOnError /\ nodes[k] # <<>> /\ nodes'[k] # <<>>) =>
               (Task(k).pc # "onError" /\ Task(k)'.pc = "onError")
                   <=> (Task(k).err = "none" /\ Task(k)'.err # "none")]_vars

C18_Witness ==
    \E t \in Tasks : /\ opts.wOnError /\ t.err = "threw"
                     /\ t.pc = "finished" /\ t.result = "onError's"

\* C19: called with a Sql client and no worker file, startQueueRunner goes from its
\* start to the configuration error and nowhere else: the pool is never started, the
\* ready hook never runs, no processQueue call is made, no message is leased and no
\* task exists
C19_ConfigErrorFirst ==
    /\ [](opts.sqlClient /\ ~opts.worker =>
            /\ loop \in {"start", "configError"}
            /\ invs = EmptyBag
            /\ Tasks = {}
            /\ \A m \in MsgIds : msgs[m].st \in {"none", "avail"})
    /\ [][(loop # "configError" /\ loop' = "configError")
            => (loop = "start" /\ opts.sqlClient /\ ~opts.worker)]_vars

C19_Witness == loop = "configError" /\ opts.onReady /\ \E m \in MsgIds : msgs[m].st = "avail"

\* C20: shuttingDown starts FALSE, no step resets it, only a signal changes it, a
\* signal leaves it TRUE, and a signal that finds it TRUE changes nothing
C20_FlagMonotonic ==
    /\ ~shuttingDown
    /\ [][shuttingDown => shuttingDown']_vars
    /\ [][shuttingDown' # shuttingDown => handleShutdown]_vars
    /\ [][handleShutdown => (shuttingDown' /\ (shuttingDown => UNCHANGED vars))]_vars

C20_Witness == shuttingDown /\ loop = "join" /\ ENABLED handleShutdown

LeasedBy(j) ==
    {i \in 1..Len(hist[j].before) :
        hist[j].before[i].st = "avail" /\ hist[j].after[i].st = "leased"}

\* C22: a read of a client with a schema returns only payloads that pass it and
\* nothing when it raises, and without an onInvalid callback it raises a SchemaError
\* exactly when a row it leased fails the schema
C22_ReadRaisesOnInvalid ==
    \A j \in Reads :
        /\ copts.schema => \A x \in Elems(hist[j].out) : safeParse(x).success
        /\ hist[j].status # "ok" => hist[j].out = <<>>
        /\ (copts.schema /\ ~copts.onInvalid) =>
              /\ hist[j].status \in {"ok", "SchemaError"}
              /\ hist[j].status = "SchemaError"
                    <=> \E i \in LeasedBy(j) : ~safeParse(hist[j].before[i].p).success
              /\ hist[j].status = "ok" => Len(hist[j].out) = Cardinality(LeasedBy(j))

C22_Witness ==
    \E j \in Reads :
        /\ copts.schema /\ ~copts.onInvalid
        /\ hist[j].status = "SchemaError"
        /\ Cardinality(LeasedBy(j)) = 2
        /\ \E i \in LeasedBy(j) : safeParse(hist[j].before[i].p).success

\* C23: every read of a client that processQueue constructed is issued with the
\* messageTimeout startQueueRunner was given, 5 if it was given none, and with a
\* quantity of 1
C23_RunnerReadArgs ==
    \A j \in Reads : copts.by # ByUser =>
        hist[j].args = [vt |-> IF copts.by = Undefined THEN 5 ELSE copts.by, qty |-> 1]

\* what one call op on message m leaves of the tables
OneCall(op, m) ==
    CASE op = "delete" -> qDelete(msgs, m)
      [] op = "archive" -> qArchive(msgs, m)
      [] op = "setTimeout" -> qSetVt(msgs, m)
      [] OTHER -> msgs

\* C24: a task carries the name of the queue its message was read from; a delete,
\* archive or setTimeout call of the handler on its handle, and the dispatcher's own
\* archive, do to the task's message what one such call does and leave every other
\* message of every queue as it was
C24_HandleRoutes ==
    /\ [](\A t \in Tasks : t.q = msgs[t.m].q /\ RowOf(msgs, t.q, msg_id(msgs, t.m)) = {t.m})
    /\ [][\A k \in Nodes, op \in HandleOps :
            HandlerCall(k, op) => msgs' = OneCall(op, Task(k).m)]_vars
    /\ [][\A k \in Nodes :
            DispatcherArchive(k) => msgs' = OneCall("archive", Task(k).m)]_vars

C24_Witness ==
    \E t \in Tasks, n \in MsgIds :
        /\ t.q = "qb" /\ "delete" \in t.hops /\ msgs[t.m].st = "deleted"
        /\ msgs[n].q = "qa" /\ msgs[n].st \in Active
        /\ msg_id(msgs, n) = msg_id(msgs, t.m)

\* how many processQueue calls are running
RunningCount(b) == BagCardinality([r \in Running(b) |-> b[r]])

\* C25: the step that submits a task is the step in which the submitting call of
\* processQueue ends; the backoff timer, a pending read and a pending archive of an
\* invalid message can always go on, whatever the tasks in the pool; and a cycle can
\* start whenever the loop waits for the pool and a worker node is idle, with tasks
\* executing on other nodes or not
C25_NoWaitOnTask ==
    /\ [][\A k \in Nodes : Len(nodes'[k]) > Len(nodes[k]) =>
             RunningCount(invs') = RunningCount(invs) - 1]_vars
    /\ [](loop = "sleep" => ENABLED SleepDone)
    /\ [](\A r \in BagToSet(invs) :
             /\ r.pc = "read" => ENABLED (\E k \in Nodes : ReadRows(r, k))
             /\ r.pc = "invalidArchive" => ENABLED InvalidArchiveDone(r))
    /\ []((loop = "waitReady" /\ idleWorkerNodes > 0) => ENABLED Fanout)

C25_Witness ==
    /\ loop = "join" /\ Stragglers = {}
    /\ \E k \in Nodes : At(k, "handler")
    /\ \A q \in Queues : \E r \in Cur(invs) : r.q = q /\ r.pc = "read"

\* where the body of startQueueRunner is while it is in its polling loop
InLoop == loop \in {"waitReady", "join", "sleep"}

\* C26: no step takes startQueueRunner out of its polling loop while shuttingDown
\* is FALSE
C26_LoopEndsOnlyOnShutdown ==
    [][(InLoop /\ ~InLoop') => shuttingDown]_vars

\* C27: with no hook configured, a message becomes deleted only in a step in which a
\* handler calls delete on its own message, and becomes archived only in such a step
\* with archive, in the runner's archive of a payload that fails its schema, or in
\* the dispatcher's archive for a task whose handler threw or was not resolved; the
\* dispatcher issues no call but archive
C27_RuntimeOnlyArchives ==
    /\ [](\A t \in Tasks : \A i \in 1..Len(t.dcalls) : t.dcalls[i] = "archive")
    /\ [][\A m \in MsgIds :
            (msgs[m].st # "deleted" /\ msgs'[m].st = "deleted") =>
                \E k \in Nodes : HandlerCall(k, "delete") /\ Task(k).m = m]_vars
    /\ [][\A m \in MsgIds :
            (msgs[m].st # "archived" /\ msgs'[m].st = "archived") =>
                \/ \E k \in Nodes : HandlerCall(k, "archive") /\ Task(k).m = m
                \/ \E r \in BagToSet(invs) :
                      InvalidArchiveDone(r) /\ r.m = m /\ Invalid(r)
                \/ \E k \in Nodes :
                      DispatcherArchive(k) /\ Task(k).m = m /\ Task(k).err # "none"]_vars

C27_Witness ==
    \E t \in Tasks, n \in MsgIds :
        /\ t.err = "threw" /\ t.dcalls = <<"archive">> /\ msgs[t.m].st = "archived"
        /\ msgs[n].st = "deleted"

\* the rows the query of read number j selects: the first args.qty visible rows
Batch(j) ==
    {i \in 1..Len(hist[j].before) :
        /\ hist[j].before[i].st = "avail"
        /\ Cardinality({n \in 1..(i - 1) : hist[j].before[n].st = "avail"})
              < hist[j].args.qty}

\* C28: a read of a client with a schema that raises returns nothing, leaves every
\* row of its batch leased, the ones that passed the schema included, and removes
\* or changes no row otherwise; it raises only if a row of the batch fails the schema
C28_RaisedReadKeepsLeases ==
    \A j \in Reads : (copts.schema /\ hist[j].status # "ok") =>
        /\ hist[j].out = <<>>
        /\ Len(hist[j].after) = Len(hist[j].before)
        /\ \A i \in 1..Len(hist[j].before) :
              hist[j].after[i] =
                 IF i \in Batch(j) THEN [hist[j].before[i] EXCEPT !.st = "leased"]
                 ELSE hist[j].before[i]
        /\ \E i \in Batch(j) : ~safeParse(hist[j].before[i].p).success
        /\ hist[j].status = IF copts.onInvalid THEN "HookError" ELSE "SchemaError"

C28_Witness ==
    \E j \in Reads : \E i \in Batch(j) :
        /\ copts.schema /\ copts.onInvalid /\ hist[j].status = "HookError"
        /\ Cardinality(Batch(j)) = 2
        /\ safeParse(hist[j].before[i].p).success
        /\ hist[j].after[i].st = "leased"

\* C29: the step that ends a cycle in which a call leased a payload that fails its
\* queue's schema, and no call leased any other message, goes to the backoff sleep
C29_InvalidOnlyCycleSleeps ==
    [][( /\ loop = "join" /\ loop' # "join"
         /\ \E r \in Cur(invs) : Invalid(r)
         /\ \A r \in Cur(invs) : r.m # 0 => Invalid(r)
         /\ \A m \in MsgIds : msgs[m].st = "avail" => msgs'[m].st = "avail" )
       => loop' = "sleep"]_vars

C29_Witness ==
    /\ loop = "sleep" /\ invs = EmptyBag /\ Tasks = {} /\ expiries = 0
    /\ \E m \in MsgIds :
          /\ ~msgs[m].valid /\ msgs[m].st = "archived"
          /\ \A n \in MsgIds \ {m} : msgs[n].st = "none"

\* startQueueRunner has not got to its loop
Starting == loop \in {"start", "configError", "poolStarting", "onReady"}

\* startQueueRunner is past its loop
PastLoop == loop \in {"onShutdown", "destroy", "returned", "rejected"}

\* the parts of C30 that are about single steps and states
C30_Order ==
    /\ [](Starting =>
            /\ invs = EmptyBag /\ Tasks = {}
            /\ \A m \in MsgIds : msgs[m].st \in {"none", "avail"})
    /\ [][(loop # "onShutdown" /\ loop' = "onShutdown")
             => (opts.onShutdown /\ shuttingDown /\ (InLoop \/ loop = "onReady"))]_vars
    /\ [][PastLoop => (PastLoop' /\ (loop # "onShutdown" => loop' # "onShutdown"))]_vars
    /\ [][(loop # "destroy" /\ loop' = "destroy")
             => (IF opts.onShutdown THEN loop = "onShutdown" ELSE loop # "onShutdown")]_vars

====
